---- MODULE Spec2Model ----
(***************************************************************************)
(* mashop-dashboard: the history accumulation pipeline of mashop/build.py  *)
(* and mashop/storage.py (read_history -> _collect_recent_df ->            *)
(* _merge_history -> trim_history_days -> write_history, per location).    *)
(*                                                                         *)
(* Time is counted in minutes since 2025-06-01T00:00:00 local (KST), a     *)
(* Sunday.  A dateTime cell is [ts, fmt]: ts the instant, fmt the text it  *)
(* is written in, because the code compares, de-duplicates and sorts the   *)
(* TEXT (build.py:86-88) and only trim_history_days parses it:             *)
(*   "T"    YYYY-MM-DDTHH:MM:SS   strftime of _collect_recent_df           *)
(*   "sp"   YYYY-MM-DD HH:MM:SS   to_csv of a datetime64 column            *)
(*   "d"    YYYY-MM-DD            to_csv of a datetime64 column whose      *)
(*                                values are all at midnight               *)
(*   "dt64" a datetime64 value in memory (after trim_history_days)         *)
(*   "bad"  a text that is no date ("nan" of an empty cell, "not-a-date")  *)
(* pd.to_datetime(errors="coerce") depends on the installed pandas, which  *)
(* the repository does not pin: before 2.0 every element is parsed on its  *)
(* own, from 2.0 on the format is inferred from the first element and an   *)
(* element in another format becomes NaT.  strictParse is that choice.     *)
(***************************************************************************)
EXTENDS Integers, Sequences, FiniteSets, TLC

VARIABLES
  strictParse,   \* environment: pandas infers one format per column (>= 2.0)
  mapsJson,      \* environment: the content of maps.json
  maps,          \* main(): the list load_maps_list returned
  disk,          \* slug -> history.csv content, or NoFile
  rawDump,       \* slug -> the files of raw_dump/: name (date range), mtime
  today,         \* environment: the day of the current run
  pc,            \* position of main(): idle, loop, project, done, aborted
  runs,          \* number of runs started
  loc,           \* index i of the per-location loop of main()
  failed,        \* locations whose fetch raised in the current run
  perMap,        \* per_map_history of the current run
  report,        \* number of the run that last wrote docs/index.html, 0 if none
  fetched,       \* records returned by the API so far
  lastKw,        \* location of the last completed loop iteration, or NoKw
  lastOk,        \* whether its fetch returned
  lastOld,       \* old_df of that iteration
  lastNew,       \* new_df of that iteration
  lastMerged,    \* _merge_history(old_df, new_df) of that iteration
  lastTrimmed,   \* trim_history_days(merged, KEEP_DAYS) of that iteration
  argOld,        \* function specification: first record set
  argNew,        \* function specification: second record set
  argDays,       \* function specification: keep_days
  outAB,         \* function specification: _merge_history(argOld, argNew)
  outBA,         \* function specification: _merge_history(argNew, argOld)
  outTrim,       \* function specification: trim_history_days(outAB, argDays)
  arg,           \* single-function specification: the function and its input
  ret            \* single-function specification: what it returned

vars == <<strictParse, mapsJson, maps, disk, rawDump, today, pc, runs, loc, failed, perMap,
          report, fetched,
          lastKw, lastOk, lastOld, lastNew, lastMerged, lastTrimmed,
          argOld, argNew, argDays, outAB, outBA, outTrim, arg, ret>>

pipeVarsNoPc == <<mapsJson, maps, disk, rawDump, today, runs, loc, failed, perMap, report, fetched,
                  lastKw, lastOk, lastOld, lastNew, lastMerged, lastTrimmed>>

fnVars == <<argOld, argNew, argDays, outAB, outBA, outTrim, arg, ret>>

----------------------------------------------------------------------------
(* Bounds of the model *)

MaxRuns == 3        \* runs of main() in one behaviour
MaxBatch == 2       \* records in one API response
MaxFetched == 2     \* records returned by the API in one behaviour
MaxFnLen == 2       \* records in an argument of the function specification

(* Program constants *)

KEEP_DAYS == 180
RAW_KEEP_DAYS == 14
MinPerDay == 1440
KstOffsetMin == 540

(* Absent values: None (a missing key, a JSON null) and NaN (an empty cell) *)
NoneV == 0 - 1
NaNV == 0 - 2
NoneS == "None"
NaNS == "NaN"

NoFile == [exists |-> FALSE, cols |-> FALSE, rows |-> <<>>]
NoKw == "-"
NoDf == [ok |-> FALSE, cols |-> FALSE, rows |-> <<>>]

----------------------------------------------------------------------------
(* Sequences *)

Min(S) == CHOOSE x \in S : \A y \in S : x <= y
Max(S) == CHOOSE x \in S : \A y \in S : x >= y
Range(s) == {s[i] : i \in DOMAIN s}

RECURSIVE Pick(_, _)
\* the elements of s at the indices idx, in the order of s
Pick(s, idx) ==
  IF idx = {} THEN <<>>
  ELSE LET m == Min(idx) IN <<s[m]>> \o Pick(s, idx \ {m})

RECURSIVE SortedIdx(_, _)
\* every arrangement of the indices idx in non-decreasing order of key k;
\* equal keys come in any order (sort_values, kind="quicksort", is not stable)
SortedIdx(k, idx) ==
  IF idx = {} THEN {<<>>}
  ELSE LET m == Min({k[i] : i \in idx})
           first == {i \in idx : k[i] = m}
       IN UNION {{<<c>> \o s : s \in SortedIdx(k, idx \ {c})} : c \in first}

SeqsUpTo(S, n) == UNION {[1..m -> S] : m \in 0..n}

----------------------------------------------------------------------------
(* Timestamps and their text *)

EpochWeekday == 6   \* 2025-06-01 is a Sunday: datetime.weekday() = 6

DayOf(ts) == ts \div MinPerDay
MinuteOf(ts) == ts % MinPerDay
WeekdayOf(ts) == (EpochWeekday + DayOf(ts)) % 7

DT(ts, fmt) == [ts |-> ts, fmt |-> fmt]

\* Series.astype(str): a string stays as it is, a datetime64 value prints
\* with a space between date and time
AsStr(dt) == IF dt.fmt = "dt64" THEN DT(dt.ts, "sp") ELSE dt

FmtRank(fmt) == CASE fmt = "d" -> 0 [] fmt = "sp" -> 1 [] OTHER -> 2

\* a text that starts with a letter sorts after every text that starts with
\* a digit
LettersAfterDigits == 400 * 3 * MinPerDay

\* lexicographic order of the text, as an integer: the ten characters of the
\* date first, then end of string < " " < "T", then the time of day
StrKey(dt) ==
  IF dt.fmt = "bad" THEN LettersAfterDigits + dt.ts
  ELSE DayOf(dt.ts) * (3 * MinPerDay) + FmtRank(dt.fmt) * MinPerDay
         + (IF dt.fmt = "d" THEN 0 ELSE MinuteOf(dt.ts))

\* the UTC offset, in minutes, that an ISO string carries
UtcOffset(tz) == CASE tz = "+09:00" -> 540 [] tz = "-05:00" -> 0 - 300 [] OTHER -> 0

\* a mutant of parse_dt: the offset is dropped, not converted
ParseDtDropOffset(raw) == raw.ts

\* parse_dt: a naive ISO string is local time, one with an offset ("Z",
\* "+hh:mm") is converted to local time, anything else raises.  raw.ts is the
\* wall-clock value the string shows, raw.tz its offset part.
ParseOk(raw) == raw.tz \in {"naive", "Z", "+09:00", "-05:00"}
parse_dt(raw) ==
  IF raw.tz = "naive" THEN raw.ts
  ELSE raw.ts - UtcOffset(raw.tz) + KstOffsetMin

----------------------------------------------------------------------------
(* DataFrames: [ok, cols, rows]; cols is FALSE for a frame without columns *)

Df(rows) == [ok |-> TRUE, cols |-> TRUE, rows |-> rows]
EmptyNoCols == [ok |-> TRUE, cols |-> FALSE, rows |-> <<>>]

\* one item of the response -> one row of out (build.py:55-66), price and
\* tradeCount through float() and pd.to_numeric: None becomes NaN
NormalizeItem(it, keyword) ==
  LET ts == parse_dt(it.dateTime) IN
  [ mapName |-> IF it.mapName = NoneS THEN keyword ELSE it.mapName,
    dateTime |-> DT(ts, "T"),
    date |-> DayOf(ts),
    time |-> MinuteOf(ts),
    weekday |-> WeekdayOf(ts),
    price |-> IF it.price = NoneV THEN NaNV ELSE it.price,
    tradeCount |-> IF it.tradeCount = NoneV THEN NaNV ELSE it.tradeCount,
    timeUnit |-> it.timeUnit ]

\* a price or tradeCount that float() rejects (a text that is no number)
NotNum == 0 - 4

\* an item of the response that is no JSON object (a string, a number)
ScalarItem == [scalar |-> "x"]
IsObject(it) == "scalar" \notin DOMAIN it

\* the loop of _collect_recent_df raises: it.get on an item that is no object
\* (AttributeError), or float() on a price or tradeCount that is no number
\* (ValueError) in an item whose dateTime is there and parses; only parse_dt
\* is inside a try
CollectRaises(rows) ==
  \E i \in DOMAIN rows :
    \/ ~IsObject(rows[i])
    \/ /\ ParseOk(rows[i].dateTime)
       /\ (rows[i].price = NotNum \/ rows[i].tradeCount = NotNum)

\* a mutant of _collect_recent_df: a record that does not parse ends the batch
CollectAbortOnBad(rows, keyword) ==
  IF \E i \in DOMAIN rows : ~ParseOk(rows[i].dateTime) THEN EmptyNoCols
  ELSE IF rows = <<>> THEN EmptyNoCols
  ELSE Df([i \in DOMAIN rows |-> NormalizeItem(rows[i], keyword)])

\* _collect_recent_df after fetch_period returned rows: items without a
\* dateTime or with one that parse_dt rejects are skipped; pd.DataFrame([])
\* has no columns
CollectRecent(rows, keyword) ==
  LET good == {i \in DOMAIN rows : ParseOk(rows[i].dateTime)}
      kept == Pick(rows, good)
  IN IF good = {} THEN EmptyNoCols
     ELSE Df([i \in DOMAIN kept |-> NormalizeItem(kept[i], keyword)])

\* drop_duplicates(subset=["dateTime"], keep="first")
DropDupFirst(rows) ==
  Pick(rows, {i \in DOMAIN rows :
                \A j \in DOMAIN rows : j < i => rows[j].dateTime # rows[i].dateTime})

\* drop_duplicates(subset=["dateTime"], keep="last"): rows with the same TEXT
DropDupLast(rows) ==
  Pick(rows, {i \in DOMAIN rows :
                \A j \in DOMAIN rows : j > i => rows[j].dateTime # rows[i].dateTime})

\* sort_values(by=["dateTime"]) on the string column; the keys are distinct
\* after drop_duplicates
SortByText(rows) ==
  LET k == [i \in DOMAIN rows |-> StrKey(rows[i].dateTime)]
      p == CHOOSE s \in SortedIdx(k, DOMAIN rows) : TRUE
  IN [i \in DOMAIN rows |-> rows[p[i]]]

\* _fill_row: a row with a falsy date, time or weekday (None; NaN is truthy)
\* gets them from parse_dt(dateTime) when that parses, and is left as it is
\* when parse_dt raises
FillRow(r) ==
  IF r.date # NoneV /\ r.time # NoneV /\ r.weekday # NoneV THEN r
  ELSE IF r.dateTime.fmt = "bad" THEN r
  ELSE [r EXCEPT !.date = IF @ = NoneV THEN DayOf(r.dateTime.ts) ELSE @,
                 !.time = IF @ = NoneV THEN MinuteOf(r.dateTime.ts) ELSE @,
                 !.weekday = IF @ = NoneV THEN WeekdayOf(r.dateTime.ts) ELSE @]

\* a mutant of _merge_history: keep="first"
MergeKeepFirst(old, new) ==
  LET merged == IF old.rows = <<>> THEN new
                ELSE IF new.rows = <<>> THEN old
                ELSE Df(old.rows \o new.rows)
  IN IF merged.rows = <<>> THEN merged
     ELSE LET asStr == [i \in DOMAIN merged.rows |->
                          [merged.rows[i] EXCEPT !.dateTime = AsStr(@)]]
              sorted == SortByText(DropDupFirst(asStr))
          IN Df([i \in DOMAIN sorted |-> FillRow(sorted[i])])

\* _merge_history(old_df, new_df)
MergeHistory(old, new) ==
  LET merged == IF old.rows = <<>> THEN new
                ELSE IF new.rows = <<>> THEN old
                ELSE Df(old.rows \o new.rows)
  IN IF merged.rows = <<>> THEN merged
     ELSE LET asStr == [i \in DOMAIN merged.rows |->
                          [merged.rows[i] EXCEPT !.dateTime = AsStr(@)]]
              sorted == SortByText(DropDupLast(asStr))
          IN Df([i \in DOMAIN sorted |-> FillRow(sorted[i])])

----------------------------------------------------------------------------
(* storage.py: trim_history_days, write_history, read_history *)

\* pd.to_datetime(df[col], errors="coerce"), as the mask of the values that
\* are not NaT.  Every text of the model is a valid date; what is coerced
\* to NaT is a text in another format than the first one, when pandas
\* infers one format for the column.
ValidMask(rows, strict) ==
  LET dates == {i \in DOMAIN rows : rows[i].dateTime.fmt # "bad"} IN
  [i \in DOMAIN rows |->
     /\ i \in dates
     /\ strict => rows[i].dateTime.fmt = rows[Min(dates)].dateTime.fmt]

\* a mutant of trim_history_days: keep_mask = ts2 > cutoff
TrimExclusive(df, keep_days, strict) ==
  IF df.rows = <<>> THEN {df}
  ELSE LET mask == ValidMask(df.rows, strict)
           df2 == Pick(df.rows, {i \in DOMAIN df.rows : mask[i]})
           latest == Max({df2[i].dateTime.ts : i \in DOMAIN df2})
           cutoff == latest - keep_days * MinPerDay
           df3 == Pick(df2, {i \in DOMAIN df2 : df2[i].dateTime.ts > cutoff})
           conv == [i \in DOMAIN df3 |->
                      [df3[i] EXCEPT !.dateTime = DT(@.ts, "dt64")]]
           k == [i \in DOMAIN conv |-> conv[i].dateTime.ts]
       IN {Df([i \in DOMAIN conv |-> conv[p[i]]]) : p \in SortedIdx(k, DOMAIN conv)}

\* trim_history_days(df, keep_days): every frame it can return (rows with
\* the same instant come out of sort_values in either order)
TrimOutcomes(df, keep_days, strict) ==
  IF df.rows = <<>> THEN {df}
  ELSE LET mask == ValidMask(df.rows, strict)
           df2 == Pick(df.rows, {i \in DOMAIN df.rows : mask[i]})
           latest == Max({df2[i].dateTime.ts : i \in DOMAIN df2})
           cutoff == latest - keep_days * MinPerDay
           df3 == Pick(df2, {i \in DOMAIN df2 : df2[i].dateTime.ts >= cutoff})
           conv == [i \in DOMAIN df3 |->
                      [df3[i] EXCEPT !.dateTime = DT(@.ts, "dt64")]]
           k == [i \in DOMAIN conv |-> conv[i].dateTime.ts]
       IN {Df([i \in DOMAIN conv |-> conv[p[i]]]) : p \in SortedIdx(k, DOMAIN conv)}

\* the text to_csv writes for a dateTime column: a datetime64 column prints
\* dates only when every value is at midnight, else date, space, time
CsvDateTime(rows, i) ==
  LET dt == rows[i].dateTime IN
  IF dt.fmt # "dt64" THEN dt
  ELSE IF \A j \in DOMAIN rows :
            rows[j].dateTime.fmt = "dt64" => MinuteOf(rows[j].dateTime.ts) = 0
       THEN DT(dt.ts, "d")
       ELSE DT(dt.ts, "sp")

\* the texts read_csv takes for a missing value
NaTexts == {"", "NA", "N/A", "NaN", "nan", "null", "NULL", NoneS, NaNS}

CsvNum(v) == IF v \in {NoneV, NaNV} THEN NaNV ELSE v
CsvText(v) == IF v \in NaTexts THEN NaNS ELSE v

\* write_history then the file as read_csv sees it: df.to_csv(index=False).
\* A frame without columns writes an empty header line and nothing else.
WriteCsv(df) ==
  IF ~df.cols THEN [exists |-> TRUE, cols |-> FALSE, rows |-> <<>>]
  ELSE [exists |-> TRUE, cols |-> TRUE,
        rows |-> [i \in DOMAIN df.rows |->
                    [ dateTime |-> CsvDateTime(df.rows, i),
                      date |-> CsvNum(df.rows[i].date),
                      time |-> CsvNum(df.rows[i].time),
                      weekday |-> CsvNum(df.rows[i].weekday),
                      price |-> CsvNum(df.rows[i].price),
                      tradeCount |-> CsvNum(df.rows[i].tradeCount),
                      timeUnit |-> CsvText(df.rows[i].timeUnit),
                      mapName |-> CsvText(df.rows[i].mapName) ]]]

\* a cell of a column the file does not have
NoColV == 0 - 5

\* read_history: no file -> the empty frame with the eight columns; a file
\* without a header -> read_csv raises EmptyDataError twice, nothing
\* catches the second (NoDf); a column the file does not have is added with
\* None in every row
ReadHistory(file) ==
  IF ~file.exists THEN Df(<<>>)
  ELSE IF ~file.cols THEN NoDf
  ELSE Df([i \in DOMAIN file.rows |->
             [file.rows[i] EXCEPT !.date = IF @ = NoColV THEN NoneV ELSE @,
                                  !.time = IF @ = NoColV THEN NoneV ELSE @,
                                  !.weekday = IF @ = NoColV THEN NoneV ELSE @]])

\* the characters of the location names of the model
Chars(name) ==
  CASE name = "A" -> <<"A">>
    [] name = "B" -> <<"B">>
    [] name = "A:B" -> <<"A", ":", "B">>
    [] name = "A B" -> <<"A", " ", "B">>
    [] OTHER -> <<>>

\* [\\/:*?"<>|] of the first re.sub (the control characters are in no name of
\* the model), and \s of the second
Forbidden == {"\\", "/", ":", "*", "?", "\"", "<", ">", "|"}
Whitespace == {" ", "\t"}

RECURSIVE StripLeft(_, _)
StripLeft(s, set) ==
  IF s # <<>> /\ Head(s) \in set THEN StripLeft(Tail(s), set) ELSE s

RECURSIVE StripRight(_, _)
StripRight(s, set) ==
  IF s # <<>> /\ s[Len(s)] \in set THEN StripRight(SubSeq(s, 1, Len(s) - 1), set)
  ELSE s

RECURSIVE Collapse(_)
\* re.sub(r"_+", "_", s)
Collapse(s) ==
  IF Len(s) < 2 THEN s
  ELSE IF s[1] = "_" /\ s[2] = "_" THEN Collapse(Tail(s))
  ELSE <<s[1]>> \o Collapse(Tail(s))

\* hashlib.md5(name).hexdigest()[:10], as a token of the name
Md5(name) == <<"md5", name>>

SlugMaxLen == 80

\* windows_safe_slug(name, max_len): a forbidden character becomes "_", a run
\* of whitespace becomes "_", runs of "_" become one and are stripped at both
\* ends; an empty result is replaced by "map_" and a hash of the name, a long
\* one is cut and gets the hash appended
windows_safe_slug(name) ==
  LET max_len == SlugMaxLen
      s0 == StripRight(StripLeft(Chars(name), Whitespace), Whitespace)
      s1 == [i \in DOMAIN s0 |->
               IF s0[i] \in Forbidden \cup Whitespace THEN "_" ELSE s0[i]]
      s2 == StripRight(StripLeft(Collapse(s1), {"_"}), {"_"})
      s3 == IF s2 = <<>> THEN <<"map_">> \o Md5(name) ELSE s2
  IN IF Len(s3) > max_len
     THEN StripRight(SubSeq(s3, 1, max_len - 11), {"_"}) \o <<"_">> \o Md5(name)
     ELSE s3

\* map_paths(keyword): the directory of the location, which holds history.csv
\* and raw_dump/
map_paths(keyword) == windows_safe_slug(keyword)

----------------------------------------------------------------------------
(* Inputs *)

MapsList == <<"A", "B">>
MapNames == Range(MapsList) \cup {"A:B", "A B"}

\* a string of maps.json: its text without the surrounding whitespace (core)
\* and whether whitespace surrounds it
Str(core, pad) == [core |-> core, pad |-> pad]

\* str(x).strip()
strip(x) == x.core

\* maps.json: no file, a JSON value that is no array, or an array of strings
NoMapsFile == [kind |-> "missing", data |-> <<>>]
JsonObject == [kind |-> "object", data |-> <<>>]
JsonList(items) == [kind |-> "list", data |-> items]

MapsJsonFiles ==
  { NoMapsFile, JsonObject, JsonList(<<>>),
    JsonList(<<Str("", FALSE), Str("", TRUE)>>),
    JsonList(<<Str("A", FALSE), Str("B", FALSE)>>) }

\* a mutant of load_maps_list: without the check that a name is left
LoadMapsNoEmptyCheck(file) ==
  IF file.kind # "list" THEN [ok |-> FALSE, maps |-> <<>>]
  ELSE LET names == Pick(file.data, {i \in DOMAIN file.data : strip(file.data[i]) # ""})
       IN [ok |-> TRUE, maps |-> [i \in DOMAIN names |-> strip(names[i])]]

\* load_maps_list: raises (ok = FALSE) when the file is missing, is no list
\* or holds no non-blank name; else the stripped non-blank names in order
load_maps_list(file) ==
  IF file.kind # "list" THEN [ok |-> FALSE, maps |-> <<>>]
  ELSE LET names == Pick(file.data, {i \in DOMAIN file.data : strip(file.data[i]) # ""})
       IN IF names = <<>> THEN [ok |-> FALSE, maps |-> <<>>]
          ELSE [ok |-> TRUE, maps |-> [i \in DOMAIN names |-> strip(names[i])]]

AtDay(d, hh) == d * MinPerDay + hh * 60

\* the instants the API reports in the pipeline: midnight and 10:00 of
\* 2025-06-01, and 10:00 KEEP_DAYS later (which puts the cutoff at the second)
FetchTimes == {AtDay(0, 0), AtDay(0, 10), AtDay(KEEP_DAYS, 10)}
Quotes == {<<1000, 5>>, <<1200, 7>>}

Item(t, q) ==
  [dateTime |-> [ts |-> t, tz |-> "naive"], price |-> q[1], tradeCount |-> q[2],
   timeUnit |-> "hour", mapName |-> NoneS]

RawItems == {Item(t, q) : t \in FetchTimes, q \in Quotes}

----------------------------------------------------------------------------
(* main(): runs of the pipeline *)

NoPerMap == [kw \in MapNames |-> NoDf]
NoArg == [fn |-> "-"]

\* the days between two runs: the same day, or one day more than the raw
\* dumps are to be kept
RunGaps == {0, RAW_KEEP_DAYS + 1}

\* cleanup_raw_dump(raw_dir, keep_days) at day now: the files of the
\* directory it leaves (mtime < cutoff is deleted).  No run calls it.
cleanup_raw_dump(files, keep_days, now) ==
  {f \in files : ~(f.mtime < now - keep_days)}

\* the variables of the function specification, unused by the pipeline
FnIdle ==
  /\ arg = NoArg
  /\ ret = NoArg
  /\ argOld = NoDf
  /\ argNew = NoDf
  /\ argDays = 0
  /\ outAB = NoDf
  /\ outBA = NoDf
  /\ outTrim = NoDf

\* the variables of the pipeline before the first run
PipeIdle ==
  /\ maps = <<>>
  /\ disk = [s \in {windows_safe_slug(kw) : kw \in MapNames} |-> NoFile]
  /\ rawDump = [s \in {windows_safe_slug(kw) : kw \in MapNames} |-> {}]
  /\ today = 0
  /\ runs = 0
  /\ loc = 0
  /\ failed = {}
  /\ perMap = NoPerMap
  /\ report = 0
  /\ fetched = 0
  /\ lastKw = NoKw
  /\ lastOk = FALSE
  /\ lastOld = NoDf
  /\ lastNew = NoDf
  /\ lastMerged = NoDf
  /\ lastTrimmed = NoDf

Init ==
  /\ strictParse \in BOOLEAN
  /\ mapsJson \in MapsJsonFiles
  /\ pc = "idle"
  /\ PipeIdle
  /\ FnIdle

\* main() up to the loop: the directories, load_maps_list, the session; the
\* loop body is not entered for an empty list
StartRun ==
  /\ pc \in {"idle", "done", "aborted", "configError"}
  /\ runs < MaxRuns
  /\ load_maps_list(mapsJson).ok
  /\ runs' = runs + 1
  /\ today' \in IF runs = 0 THEN {today} ELSE {today + g : g \in RunGaps}
  /\ maps' = load_maps_list(mapsJson).maps
  /\ pc' = IF maps' = <<>> THEN "project" ELSE "loop"
  /\ loc' = 1
  /\ failed' = {}
  /\ perMap' = NoPerMap
  /\ lastKw' = NoKw
  /\ lastOk' = FALSE
  /\ lastOld' = NoDf
  /\ lastNew' = NoDf
  /\ lastMerged' = NoDf
  /\ lastTrimmed' = NoDf
  /\ UNCHANGED <<strictParse, mapsJson, disk, rawDump, report, fetched, fnVars>>

\* main(): load_maps_list raises, nothing catches it
ConfigRaises ==
  /\ pc \in {"idle", "done", "aborted", "configError"}
  /\ runs < MaxRuns
  /\ ~load_maps_list(mapsJson).ok
  /\ runs' = runs + 1
  /\ pc' = "configError"
  /\ UNCHANGED <<strictParse, mapsJson, maps, disk, rawDump, today, loc, failed,
                 perMap, report, fetched, lastKw, lastOk, lastOld, lastNew, lastMerged,
                 lastTrimmed, fnVars>>

\* one iteration of the loop of main() for kw = maps[i]; ok is whether
\* fetch_period returned, body what it returned.  The raw dump of the date
\* range that ends today is written (again) as soon as fetch_period returned;
\* a raise in _collect_recent_df is a failed fetch for main().
Iteration(ok, body) ==
  LET kw == maps[loc]
      slug == windows_safe_slug(kw)
      old == ReadHistory(disk[slug])
      got == ok /\ ~CollectRaises(body)
      new == IF got THEN CollectRecent(body, kw) ELSE Df(<<>>)
      merged == MergeHistory(old, new)
  IN /\ old.ok
     /\ rawDump' = IF ok
                   THEN [rawDump EXCEPT ![slug] =
                           {f \in @ : f.name # today}
                             \cup {[name |-> today, mtime |-> today]}]
                   ELSE rawDump
     /\ \E trimmed \in TrimOutcomes(merged, KEEP_DAYS, strictParse) :
          /\ disk' = [disk EXCEPT ![slug] = WriteCsv(trimmed)]
          /\ perMap' = [perMap EXCEPT ![kw] = trimmed]
          /\ lastTrimmed' = trimmed
     /\ failed' = IF got THEN failed ELSE failed \cup {kw}
     /\ fetched' = fetched + Len(body)
     /\ lastKw' = kw
     /\ lastOk' = got
     /\ lastOld' = old
     /\ lastNew' = new
     /\ lastMerged' = merged
     /\ IF loc < Len(maps)
        THEN loc' = loc + 1 /\ pc' = "loop"
        ELSE loc' = loc /\ pc' = "project"
     /\ UNCHANGED <<strictParse, mapsJson, maps, today, runs, report, fnVars>>

\* the fetch returns a list of at most MaxBatch items
FetchReturns ==
  /\ pc = "loop"
  /\ \E n \in 0..MaxBatch :
       /\ fetched + n <= MaxFetched
       /\ \E body \in [1..n -> RawItems] : Iteration(TRUE, body)

\* the fetch raises (network failure, timeout, non-2xx): build.py:251-253
FetchRaises ==
  /\ pc = "loop"
  /\ Iteration(FALSE, <<>>)

\* read_history raises on a history file without a header: nothing in
\* main() catches it, the run ends there
ReadRaises ==
  /\ pc = "loop"
  /\ ~ReadHistory(disk[windows_safe_slug(maps[loc])]).ok
  /\ pc' = "aborted"
  /\ UNCHANGED <<strictParse, mapsJson, maps, disk, rawDump, today, runs, loc, failed,
                 perMap, report, fetched,
                 lastKw, lastOk, lastOld, lastNew, lastMerged, lastTrimmed, fnVars>>

\* the projections, build_report_html and the write of docs/index.html
WriteReport ==
  /\ pc = "project"
  /\ report' = runs
  /\ pc' = "done"
  /\ UNCHANGED <<strictParse, mapsJson, maps, disk, rawDump, today, runs, loc, failed,
                 perMap, fetched,
                 lastKw, lastOk, lastOld, lastNew, lastMerged, lastTrimmed, fnVars>>

Next == StartRun \/ ConfigRaises \/ FetchReturns \/ FetchRaises \/ ReadRaises \/ WriteReport

Spec == Init /\ [][Next]_vars

\* the same runs for a maps.json whose two names differ in one character
\* that windows_safe_slug replaces
SlugMapsJsonFiles ==
  { JsonObject,
    JsonList(<<Str("A:B", TRUE), Str("", TRUE), Str("A B", TRUE)>>) }

SlugInit ==
  /\ strictParse \in BOOLEAN
  /\ mapsJson \in SlugMapsJsonFiles
  /\ pc = "idle"
  /\ PipeIdle
  /\ FnIdle

SpecSlug == SlugInit /\ [][Next]_vars

----------------------------------------------------------------------------
(* _merge_history and trim_history_days as functions of their arguments *)

\* the instants of the function specification: 2025-06-01 00:00,
\* 2025-06-13 05:00 and 10:00, 2025-06-20 00:00 and 10:00
FnTimes == {AtDay(0, 0), AtDay(12, 5), AtDay(12, 10), AtDay(19, 0), AtDay(19, 10)}
FnDays == {0, 7}

\* what _collect_recent_df returns for a response of at most n items, all
\* with the quote q
FreshSets(n, q) ==
  {CollectRecent(b, "A") : b \in SeqsUpTo({Item(t, q) : t \in FnTimes}, n)}

\* what read_history returns for the file a first run wrote from such a
\* response
StoredSets(n, q, strict) ==
  UNION {{ReadHistory(WriteCsv(t)) :
            t \in TrimOutcomes(MergeHistory(Df(<<>>), f), KEEP_DAYS, strict)} :
         f \in FreshSets(n, q) \ {EmptyNoCols}}

FnInit ==
  /\ strictParse \in BOOLEAN
  /\ mapsJson = NoMapsFile
  /\ pc = "fn"
  /\ PipeIdle
  /\ arg = NoArg
  /\ ret = NoArg
  /\ argOld \in FreshSets(MaxFnLen, <<1000, 5>>)
                  \cup StoredSets(MaxFnLen, <<1000, 5>>, strictParse)
  /\ argNew \in FreshSets(MaxFnLen, <<1200, 7>>)
  /\ argDays \in FnDays
  /\ outAB = NoDf
  /\ outBA = NoDf
  /\ outTrim = NoDf

\* the two orders of concatenation
ApplyMerge ==
  /\ pc = "fn"
  /\ outAB' = MergeHistory(argOld, argNew)
  /\ outBA' = MergeHistory(argNew, argOld)
  /\ pc' = "merged"
  /\ UNCHANGED <<strictParse, pipeVarsNoPc, argOld, argNew, argDays, outTrim, arg, ret>>

\* main(): merged = trim_history_days(merged, keep_days)
ApplyTrim ==
  /\ pc = "merged"
  /\ outTrim' \in TrimOutcomes(outAB, argDays, strictParse)
  /\ pc' = "trimmed"
  /\ UNCHANGED <<strictParse, pipeVarsNoPc, argOld, argNew, argDays, outAB, outBA,
                 arg, ret>>

FnNext == ApplyMerge \/ ApplyTrim

SpecFn == FnInit /\ [][FnNext]_vars

----------------------------------------------------------------------------
(* Single functions: fetch_period, _collect_recent_df, _format_price_kr *)

\* the body of a response: not JSON, a JSON list, a JSON object with the
\* four known keys absent, holding something else, or holding a list, or
\* any other JSON value
FetchKeys == <<"data", "items", "result", "content">>
Absent == [t |-> "absent", v |-> <<>>]
NotList == [t |-> "other", v |-> <<>>]
ListOf(l) == [t |-> "list", v |-> l]
KeyValues == {Absent, NotList, ListOf(<<>>), ListOf(<<"r1">>), ListOf(<<"r2">>)}

Bodies ==
  {[kind |-> "notjson"], [kind |-> "scalar"]}
    \cup {[kind |-> "list", v |-> l] : l \in {<<>>, <<"r1">>, <<"r1", "r2">>}}
    \cup {[kind |-> "dict", keys |-> f] : f \in [Range(FetchKeys) -> KeyValues]}

Returned(rows) == [raised |-> FALSE, rows |-> rows]
Raised == [raised |-> TRUE, rows |-> <<>>]

RECURSIVE FirstPresentKey(_, _)
\* a mutant of the loop of fetch_period: only the first key present is looked at
FirstPresentKey(body, i) ==
  IF i > Len(FetchKeys) THEN Returned(<<>>)
  ELSE LET val == body.keys[FetchKeys[i]] IN
       IF val.t = "absent" THEN FirstPresentKey(body, i + 1)
       ELSE IF val.t = "list" THEN Returned(val.v) ELSE Returned(<<>>)

RECURSIVE FirstListKey(_, _)
\* for k in ("data", "items", "result", "content"): the first key that is in
\* the object and holds a list
FirstListKey(body, i) ==
  IF i > Len(FetchKeys) THEN Returned(<<>>)
  ELSE LET val == body.keys[FetchKeys[i]] IN
       IF val.t = "list" THEN Returned(val.v) ELSE FirstListKey(body, i + 1)

\* fetch_period: raise_for_status raises on a status that is not 2xx, r.json()
\* raises on a body that is not JSON
fetch_period(ok2xx, body) ==
  IF ~ok2xx THEN Raised
  ELSE IF body.kind = "notjson" THEN Raised
  ELSE IF body.kind = "list" THEN Returned(body.v)
  ELSE IF body.kind = "dict" THEN FirstListKey(body, 1)
  ELSE Returned(<<>>)

\* round(), Python 3: to the nearest integer, a tie to the even one; n / d
\* for n >= 0, d > 0
RoundHalfEven(n, d) ==
  LET q == n \div d
      r == n % d
  IN IF 2 * r < d THEN q
     ELSE IF 2 * r > d THEN q + 1
     ELSE IF q % 2 = 0 THEN q ELSE q + 1

Man == 10000
Eok == 100000000

Placeholder == [unit |-> "-", whole |-> 0, tenth |-> NoneV]

\* a mutant of _format_price_kr: v > 100_000_000
FormatPriceAbove(x) ==
  IF x \in {NoneV, NaNV} THEN Placeholder
  ELSE LET v == IF x < 0 THEN 0 - x ELSE x IN
       IF v > Eok
       THEN LET eok_r == RoundHalfEven(v, Eok \div 10) IN
            IF eok_r % 10 = 0
            THEN [unit |-> "eok", whole |-> eok_r \div 10, tenth |-> NoneV]
            ELSE [unit |-> "eok", whole |-> eok_r \div 10, tenth |-> eok_r % 10]
       ELSE [unit |-> "man", whole |-> RoundHalfEven(v, Man), tenth |-> NoneV]

\* _format_price_kr: "-" for None and NaN; from 100,000,000 on the value in
\* units of 100,000,000 rounded to one decimal (eok_r counts tenths), written
\* without the decimal when it is 0; below, in units of 10,000 rounded.
\* round(eok, 1) of a float is modelled for the values where v / 10^8 is not
\* an inexact tie (v % 10^7 = 5 * 10^6 only for x.25 and x.75).
_format_price_kr(x) ==
  IF x \in {NoneV, NaNV} THEN Placeholder
  ELSE LET v == IF x < 0 THEN 0 - x ELSE x IN
       IF v >= Eok
       THEN LET eok_r == RoundHalfEven(v, Eok \div 10) IN
            IF eok_r % 10 = 0
            THEN [unit |-> "eok", whole |-> eok_r \div 10, tenth |-> NoneV]
            ELSE [unit |-> "eok", whole |-> eok_r \div 10, tenth |-> eok_r % 10]
       ELSE [unit |-> "man", whole |-> RoundHalfEven(v, Man), tenth |-> NoneV]

\* HOUR_ORDER: 01:00, 02:00, ..., 23:00, 00:00, as minutes of the day
HOUR_ORDER == [i \in 1..24 |-> (i % 24) * 60]

POINTS_MAX_DAYS == 60

\* the text "-" in a field that otherwise holds a number
Dash == 0 - 3

\* one slot of a pack: y and the hover entry [time, price, trade, date, weekday]
\* for hour t of date d, from the rows g of that date in ascending order of
\* dt; the last row of an hour gives price_map, tc_map and wd_map
Slot(t, g, d) ==
  LET at == {i \in DOMAIN g : MinuteOf(g[i].dateTime.ts) = t} IN
  IF at = {}
  THEN [y |-> NoneV,
        hover |-> [time |-> t, price |-> Placeholder, trade |-> Dash, date |-> d,
                   weekday |-> Dash]]
  ELSE LET r == g[Max(at)]
           wd == IF r.weekday = NoneV THEN Dash ELSE r.weekday
       IN IF r.price \in {NoneV, NaNV}
          THEN [y |-> NoneV,
                hover |-> [time |-> t, price |-> Placeholder, trade |-> Dash,
                           date |-> d, weekday |-> wd]]
          ELSE [y |-> r.price,
                hover |-> [time |-> t, price |-> _format_price_kr(r.price),
                           trade |-> IF r.tradeCount \in {NoneV, NaNV} THEN Dash
                                     ELSE r.tradeCount,
                           date |-> d, weekday |-> wd]]

RECURSIVE SlotsSkipEmpty(_, _, _)
\* a mutant of the loop over x: an hour without a price is left out
SlotsSkipEmpty(x, g, d) ==
  IF x = <<>> THEN [y |-> <<>>, hover |-> <<>>]
  ELSE LET rest == SlotsSkipEmpty(Tail(x), g, d)
           one == Slot(Head(x), g, d)
       IN IF one.y = NoneV THEN rest
          ELSE [y |-> <<one.y>> \o rest.y, hover |-> <<one.hover>> \o rest.hover]

RECURSIVE Slots(_, _, _)
\* for t in x: one y and one hover entry are appended
Slots(x, g, d) ==
  IF x = <<>> THEN [y |-> <<>>, hover |-> <<>>]
  ELSE LET rest == Slots(Tail(x), g, d)
           one == Slot(Head(x), g, d)
       IN [y |-> <<one.y>> \o rest.y, hover |-> <<one.hover>> \o rest.hover]

RECURSIVE PacksOf(_, _)
\* the packs of the dates in days, in ascending order of the date, from the
\* rows in ascending order of dt
PacksOf(rows, days) ==
  IF days = {} THEN <<>>
  ELSE LET d == Min(days)
           g == Pick(rows, {i \in DOMAIN rows : DayOf(rows[i].dateTime.ts) = d})
           s == Slots(HOUR_ORDER, g, d)
       IN <<[label |-> d, x |-> HOUR_ORDER, y |-> s.y, hover |-> s.hover]>>
            \o PacksOf(rows, days \ {d})

\* build_daily_series(df): every list of packs it can return (rows of one
\* instant come out of sort_values("dt") in either order)
build_daily_series(df, strict) ==
  IF df.rows = <<>> THEN {<<>>}
  ELSE LET mask == ValidMask(df.rows, strict)
           sub == Pick(df.rows, {i \in DOMAIN df.rows : mask[i]})
           k == [i \in DOMAIN sub |-> sub[i].dateTime.ts]
       IN IF sub = <<>> THEN {<<>>}
          ELSE {PacksOf([i \in DOMAIN sub |-> sub[p[i]]],
                        {DayOf(sub[i].dateTime.ts) : i \in DOMAIN sub}) :
                  p \in SortedIdx(k, DOMAIN sub)}

RECURSIVE PointsOf(_)
\* for _, r in sub.iterrows(): a row without a price is skipped
PointsOf(rows) ==
  IF rows = <<>> THEN <<>>
  ELSE LET r == Head(rows) IN
       IF r.price \in {NoneV, NaNV} THEN PointsOf(Tail(rows))
       ELSE <<[date |-> DayOf(r.dateTime.ts),
               time |-> MinuteOf(r.dateTime.ts),
               weekday |-> IF r.weekday = NoneV THEN Dash ELSE r.weekday,
               price |-> r.price,
               tradeCount |-> IF r.tradeCount \in {NoneV, NaNV} THEN NoneV
                              ELSE r.tradeCount]>> \o PointsOf(Tail(rows))

\* build_points(df, max_days) at the time now: every list of points it can
\* return
build_points(df, max_days, now, strict) ==
  IF df.rows = <<>> THEN {<<>>}
  ELSE LET mask == ValidMask(df.rows, strict)
           sub == Pick(df.rows, {i \in DOMAIN df.rows : mask[i]})
           cutoff == now - max_days * MinPerDay
           win == Pick(sub, {i \in DOMAIN sub : sub[i].dateTime.ts >= cutoff})
           k == [i \in DOMAIN win |-> win[i].dateTime.ts]
       IN {PointsOf(DropDupLast([i \in DOMAIN win |-> win[p[i]]])) :
             p \in SortedIdx(k, DOMAIN win)}

\* batches with records that are not on the hour: 2025-06-13 10:00 and 10:30
\* with a price, 10:45 without
OffHourSets ==
  {CollectRecent(b, "A") :
     b \in SeqsUpTo({Item(AtDay(12, 10), <<1000, 5>>),
                     Item(AtDay(12, 10) + 30, <<1200, 7>>),
                     Item(AtDay(12, 10) + 45, <<NoneV, NoneV>>)}, MaxFnLen)}

\* the histories main() hands to the projections: what trim_history_days
\* returned for a stored history merged with a batch, with and without prices
ProjHistories(strict) ==
  UNION {TrimOutcomes(MergeHistory(o, n), KEEP_DAYS, strict) :
           o \in {Df(<<>>)} \cup StoredSets(1, <<1000, 5>>, strict),
           n \in FreshSets(MaxFnLen, <<1200, 7>>)
                   \cup FreshSets(MaxFnLen, <<NoneV, NoneV>>)
                   \cup OffHourSets}

\* the times of a run: the cutoff of the points is 2025-06-01 00:00,
\* 2025-06-13 10:00, or before every record
NowTimes == {AtDay(POINTS_MAX_DAYS, 0), AtDay(POINTS_MAX_DAYS + 12, 10), AtDay(19, 12)}

\* the prices given to the formatter
PriceInputs ==
  {NoneV, NaNV, 0, 4999, 5000, 15000, 1000, 1200, 99994999, 99995000, 99999999,
   100000000, 100000001, 104999999, 125000000, 150000000, 199999999, 1000000000,
   0 - 1200, 0 - 99999999, 0 - 100000000, 0 - 150000000}

\* the items of a response given to _collect_recent_df: 10:00 and 10:30 local,
\* 20:00 UTC (05:00 of the next local day), 10:00 at +09:00, 20:00 at -05:00,
\* a text that is no date, no dateTime at all
RawDateTimes ==
  { [ts |-> AtDay(0, 10), tz |-> "naive"],
    [ts |-> AtDay(0, 10) + 30, tz |-> "naive"],
    [ts |-> AtDay(0, 20), tz |-> "Z"],
    [ts |-> AtDay(0, 10), tz |-> "+09:00"],
    [ts |-> AtDay(0, 20), tz |-> "-05:00"],
    [ts |-> 0, tz |-> "bad"],
    [ts |-> 0, tz |-> "none"] }

NormItems ==
  {[dateTime |-> d, price |-> 1000, tradeCount |-> 5, timeUnit |-> "hour",
    mapName |-> NoneS] : d \in RawDateTimes}

\* the stored histories a batch is merged into
NormOld ==
  {Df(<<>>)} \cup
  {ReadHistory(WriteCsv(t)) :
     t \in TrimOutcomes(MergeHistory(Df(<<>>),
                          CollectRecent(<<Item(AtDay(0, 10), <<1200, 7>>)>>, "A")),
                        KEEP_DAYS, FALSE)}

\* the items of a response given to the loop body of main(): records at 10:00
\* and 11:00, one whose dateTime is no date, one at 12:00 whose price is a
\* text that is no number, one at 13:00 whose tradeCount is, and an item that
\* is no object
ResponseItems ==
  { [dateTime |-> [ts |-> AtDay(0, 10), tz |-> "naive"], price |-> 1000,
     tradeCount |-> 5, timeUnit |-> "hour", mapName |-> NoneS],
    [dateTime |-> [ts |-> AtDay(0, 11), tz |-> "naive"], price |-> 1200,
     tradeCount |-> 7, timeUnit |-> "hour", mapName |-> NoneS],
    [dateTime |-> [ts |-> 0, tz |-> "bad"], price |-> 1000,
     tradeCount |-> 5, timeUnit |-> "hour", mapName |-> NoneS],
    [dateTime |-> [ts |-> AtDay(0, 12), tz |-> "naive"], price |-> NotNum,
     tradeCount |-> 5, timeUnit |-> "hour", mapName |-> NoneS],
    [dateTime |-> [ts |-> AtDay(0, 13), tz |-> "naive"], price |-> 1000,
     tradeCount |-> NotNum, timeUnit |-> "hour", mapName |-> NoneS],
    ScalarItem }

\* a row of a history file that was not written by this program as it is:
\* its date, time and weekday are there ("ok"), are empty cells ("cell"), or
\* their columns are not in the file ("nocol")
LegacyRow(dt, miss) ==
  LET cell(v) == IF miss = "ok" THEN v ELSE IF miss = "cell" THEN NaNV ELSE NoColV IN
  [dateTime |-> dt, date |-> cell(DayOf(dt.ts)), time |-> cell(MinuteOf(dt.ts)),
   weekday |-> cell(WeekdayOf(dt.ts)), price |-> 1000, tradeCount |-> 5,
   timeUnit |-> "hour", mapName |-> "A"]

\* the dateTime texts of such files: 2025-06-01 10:00:00, 2025-06-02 00:00:00,
\* and the text "nan" read_history makes of an empty cell
LegacyTexts == {DT(AtDay(0, 10), "sp"), DT(AtDay(1, 0), "sp"), DT(0, "bad")}

LegacyFiles ==
  {[exists |-> TRUE, cols |-> TRUE, rows |-> rows] :
     rows \in SeqsUpTo({LegacyRow(dt, m) : dt \in LegacyTexts, m \in {"ok", "cell"}},
                        MaxFnLen)
               \cup SeqsUpTo({LegacyRow(dt, "nocol") : dt \in LegacyTexts}, MaxFnLen)}

\* the batches merged into them: nothing, or one record at 11:00
LegacyNew == {Df(<<>>), CollectRecent(<<Item(AtDay(0, 11), <<1200, 7>>)>>, "A")}

\* the responses: a bare list of at most MaxBatch items, the same list wrapped
\* in an object under "data", or under "items" next to a "data" that holds no
\* list, a JSON value of another shape, a body that is not JSON

Wrapped(first, second) ==
  [kind |-> "dict",
   keys |-> [k \in Range(FetchKeys) |->
               IF k = "data" THEN first ELSE IF k = "items" THEN second ELSE Absent]]

Responses ==
  {[kind |-> "notjson"], [kind |-> "scalar"]}
    \cup {[kind |-> "list", v |-> l] : l \in SeqsUpTo(ResponseItems, MaxBatch)}
    \cup {Wrapped(ListOf(l), Absent) : l \in SeqsUpTo(ResponseItems, MaxBatch)}
    \cup {Wrapped(NotList, ListOf(l)) : l \in SeqsUpTo(ResponseItems, MaxBatch)}

\* a raw dump file: json.dump(obj) holds the JSON value obj
NoDump == [exists |-> FALSE, obj |-> [kind |-> "-"]]
dump_raw(obj) == [exists |-> TRUE, obj |-> obj]

Calls(strict) ==
  {[fn |-> "fetch_period", ok2xx |-> o, body |-> b] : o \in BOOLEAN, b \in Bodies}
    \cup {[fn |-> "_merge_history", old |-> ReadHistory(f), new |-> n] :
            f \in LegacyFiles, n \in LegacyNew}
    \cup {[fn |-> "loop_body", ok2xx |-> o, body |-> b, old |-> h] :
            o \in BOOLEAN, b \in Responses, h \in NormOld}
    \cup {[fn |-> "_format_price_kr", x |-> x] : x \in PriceInputs}
    \cup {[fn |-> "_collect_recent_df", rows |-> b, old |-> o] :
            b \in SeqsUpTo(NormItems, MaxBatch), o \in NormOld}
    \cup {[fn |-> "project", df |-> h, now |-> t] :
            h \in ProjHistories(strict), t \in NowTimes}

PureInit ==
  /\ strictParse \in BOOLEAN
  /\ mapsJson = NoMapsFile
  /\ pc = "call"
  /\ PipeIdle
  /\ argOld = NoDf
  /\ argNew = NoDf
  /\ argDays = 0
  /\ outAB = NoDf
  /\ outBA = NoDf
  /\ outTrim = NoDf
  /\ arg \in Calls(strictParse)
  /\ ret = NoArg

PureFrame ==
  UNCHANGED <<strictParse, pipeVarsNoPc, argOld, argNew, argDays, outAB, outBA,
              outTrim, arg>>

CallFetchPeriod ==
  /\ pc = "call"
  /\ arg.fn = "fetch_period"
  /\ ret' = fetch_period(arg.ok2xx, arg.body)
  /\ pc' = "returned"
  /\ PureFrame

CallFormatPrice ==
  /\ pc = "call"
  /\ arg.fn = "_format_price_kr"
  /\ ret' = _format_price_kr(arg.x)
  /\ pc' = "returned"
  /\ PureFrame

\* _collect_recent_df on the rows fetch_period returned, then main():
\* _merge_history(old_df, new_df)
CallCollect ==
  /\ pc = "call"
  /\ arg.fn = "_collect_recent_df"
  /\ LET new == CollectRecent(arg.rows, "A") IN
       ret' = [new |-> new, merged |-> MergeHistory(arg.old, new)]
  /\ pc' = "returned"
  /\ PureFrame

\* main(): merged = _merge_history(old_df, new_df), old_df from read_history
CallMerge ==
  /\ pc = "call"
  /\ arg.fn = "_merge_history"
  /\ ret' = [merged |-> MergeHistory(arg.old, arg.new)]
  /\ pc' = "returned"
  /\ PureFrame

\* the loop body of main() for one response, up to the dump: old_df is read,
\* rows = fetch_period(...) raises or returns a list, then
\* dump_raw(keyword, name, rows); a raise is caught by main(), which merges
\* an empty frame
CallFetchAndDump ==
  /\ pc = "call"
  /\ arg.fn = "loop_body"
  /\ LET got == fetch_period(arg.ok2xx, arg.body) IN
       IF got.raised
       THEN /\ ret' = [raised |-> TRUE, rows |-> <<>>, dump |-> NoDump,
                       new |-> Df(<<>>), merged |-> MergeHistory(arg.old, Df(<<>>))]
            /\ pc' = "returned"
       ELSE /\ ret' = [raised |-> FALSE, rows |-> got.rows,
                       dump |-> dump_raw([kind |-> "list", v |-> got.rows]),
                       new |-> NoDf, merged |-> NoDf]
            /\ pc' = "dumped"
  /\ PureFrame

\* the rest of it: the loop of _collect_recent_df over rows and its frame,
\* or the handler of main() when that raises, then _merge_history
CallNormalizeDumped ==
  /\ pc = "dumped"
  /\ arg.fn = "loop_body"
  /\ LET new == IF CollectRaises(ret.rows) THEN Df(<<>>)
                ELSE CollectRecent(ret.rows, "A")
     IN ret' = [ret EXCEPT !.raised = CollectRaises(ret.rows),
                           !.new = new,
                           !.merged = MergeHistory(arg.old, new)]
  /\ pc' = "returned"
  /\ PureFrame

\* main(): daily_series[kw] = build_daily_series(df),
\* points[kw] = build_points(df, max_days=POINTS_MAX_DAYS)
CallProject ==
  /\ pc = "call"
  /\ arg.fn = "project"
  /\ \E d \in build_daily_series(arg.df, strictParse) :
       \E pts \in build_points(arg.df, POINTS_MAX_DAYS, arg.now, strictParse) :
         ret' = [daily |-> d, points |-> pts]
  /\ pc' = "returned"
  /\ PureFrame

PureNext ==
  \/ CallFetchPeriod
  \/ CallFormatPrice
  \/ CallCollect
  \/ CallMerge
  \/ CallFetchAndDump
  \/ CallNormalizeDumped
  \/ CallProject

SpecPure == PureInit /\ [][PureNext]_vars

----------------------------------------------------------------------------
(* Vocabulary of the claims *)

Ts(r) == r.dateTime.ts
TsSet(rows) == {Ts(rows[i]) : i \in DOMAIN rows}

\* a record by its values, whatever text its timestamp is written in
RowVal(r) == [r EXCEPT !.dateTime = Ts(r)]
Count(rows, v) == Cardinality({i \in DOMAIN rows : RowVal(rows[i]) = v})

\* the same records: the same rows with the same values, in any order
SameRecords(a, b) ==
  /\ Len(a) = Len(b)
  /\ \A i \in DOMAIN a : Count(a, RowVal(a[i])) = Count(b, RowVal(a[i]))

\* the last record of rows at instant t
LastAt(rows, t) == rows[Max({i \in DOMAIN rows : Ts(rows[i]) = t})]

Stepped == lastKw # NoKw
LastFile == disk[windows_safe_slug(lastKw)]
Chronological(rows) == \A i, j \in DOMAIN rows : i < j => Ts(rows[i]) <= Ts(rows[j])

----------------------------------------------------------------------------
(* C1..C10 *)

\* C1: every persisted history holds at most one record per timestamp, and
\* after a run that fetched a record for a timestamp the persisted history
\* holds exactly one record for it, with the fetched price (1000 then 1200
\* for 2025-06-01T10:00:00 leaves one record, price 1200).
C1_OneRecordPerTimestamp ==
  /\ \A s \in DOMAIN disk : \A i, j \in DOMAIN disk[s].rows :
       i # j => Ts(disk[s].rows[i]) # Ts(disk[s].rows[j])
  /\ (Stepped /\ lastOk) =>
       \A t \in TsSet(lastNew.rows) : \A i \in DOMAIN LastFile.rows :
         Ts(LastFile.rows[i]) = t =>
           LastFile.rows[i].price = LastAt(lastNew.rows, t).price

\* C2: for every timestamp in both the stored history and the fetched set,
\* the merged history carries the price and tradeCount of the fetched record.
C2_FreshRecordWins ==
  Stepped =>
    \A t \in TsSet(lastOld.rows) \cap TsSet(lastNew.rows) :
      \A i \in DOMAIN lastMerged.rows :
        Ts(lastMerged.rows[i]) = t =>
          /\ lastMerged.rows[i].price = LastAt(lastNew.rows, t).price
          /\ lastMerged.rows[i].tradeCount = LastAt(lastNew.rows, t).tradeCount

\* C3: the records of every history returned by _merge_history are in
\* non-decreasing order of their timestamps.
C3_MergedChronological == Stepped => Chronological(lastMerged.rows)

\* C4: trim_history_days leaves max - min <= N days and keeps the record
\* with the greatest timestamp; every persisted history lies within
\* KEEP_DAYS days of its own latest timestamp.
C4_RetentionBound ==
  /\ (Stepped /\ lastMerged.rows # <<>>) =>
       /\ lastTrimmed.rows # <<>>
       /\ Max(TsSet(lastTrimmed.rows)) - Min(TsSet(lastTrimmed.rows))
            <= KEEP_DAYS * MinPerDay
       /\ Max(TsSet(lastMerged.rows)) \in TsSet(lastTrimmed.rows)
  /\ \A s \in DOMAIN disk : disk[s].rows # <<>> =>
       Max(TsSet(disk[s].rows)) - Min(TsSet(disk[s].rows)) <= KEEP_DAYS * MinPerDay

\* C8: write_history then read_history gives back the same record set.
C8_WriteReadRoundTrip ==
  Stepped =>
    /\ ReadHistory(LastFile).ok
    /\ SameRecords(ReadHistory(LastFile).rows, lastTrimmed.rows)

\* C9: whatever locations fail to fetch, the run processes every location,
\* writes the report and reaches DONE.
C9_FailureIsolated ==
  failed # {} =>
    /\ pc # "aborted"
    /\ pc = "done" => (report = runs /\ \A kw \in Range(maps) : perMap[kw].ok)

\* C10: when the fetch of a location fails, its persisted history after the
\* run holds exactly the records it held before.
C10_FailedFetchKeepsHistory ==
  (Stepped /\ ~lastOk) => SameRecords(lastOld.rows, LastFile.rows)

----------------------------------------------------------------------------
(* C11..C13 *)

\* no configured location has a history record after the loop
NoRecords == \A kw \in Range(maps) : perMap[kw].ok /\ perMap[kw].rows = <<>>

\* C11: a run whose loop leaves no location with any history record aborts
\* and writes no report; any other run that finished its loop writes the
\* report and ends normally.
C11_NoDataIsFatal ==
  /\ (pc = "done" /\ NoRecords) => report # runs
  /\ (pc = "done" /\ ~NoRecords) => report = runs

\* the history files before the first run
NoFiles == [s \in DOMAIN disk |-> NoFile]

\* maps.json is missing, is no array, or holds no non-blank name
BadMapsJson ==
  \/ mapsJson.kind # "list"
  \/ \A i \in DOMAIN mapsJson.data : mapsJson.data[i].core = ""

\* C12: when maps.json is missing, is no JSON array or holds no non-blank
\* name, the run raises before any fetch, before any history file is read or
\* written and before any report is written.
C12_ConfigErrorBeforeAnything ==
  BadMapsJson =>
    /\ pc \in {"idle", "configError"}
    /\ fetched = 0
    /\ lastKw = NoKw
    /\ disk = NoFiles
    /\ report = 0

\* a run has raised on a list that holds only blank names
C12_Witness ==
  /\ pc = "configError"
  /\ mapsJson.kind = "list"
  /\ mapsJson.data # <<>>

\* C13: read_history of an unreadable history file returns the empty history
\* with the eight columns, and the run goes on instead of aborting.
C13_UnreadableFallsBack ==
  /\ \A s \in DOMAIN disk :
       (disk[s].exists /\ ~disk[s].cols) => ReadHistory(disk[s]) = Df(<<>>)
  /\ pc # "aborted"

----------------------------------------------------------------------------
(* C22, C26, C27 *)

\* C22: after a completed run no raw dump file of a configured location that
\* is older than RAW_KEEP_DAYS days remains: what is on disk is what
\* cleanup_raw_dump would leave.
C22_OldRawDumpsDeleted ==
  pc = "done" =>
    \A kw \in Range(maps) :
      /\ \A f \in rawDump[map_paths(kw)] : today - f.mtime <= RAW_KEEP_DAYS
      /\ rawDump[map_paths(kw)]
           = cleanup_raw_dump(rawDump[map_paths(kw)], RAW_KEEP_DAYS, today)

\* C26: after a completed run read_history reads the history file of every
\* configured location without raising; the file written for a location
\* without history whose fetch returned no record reads back as the empty
\* history with the eight columns; the next run is not aborted.
C26_WrittenHistoryReadable ==
  /\ pc = "done" =>
       \A kw \in Range(maps) :
         disk[map_paths(kw)].exists /\ ReadHistory(disk[map_paths(kw)]).ok
  /\ (Stepped /\ lastOk /\ lastOld.rows = <<>> /\ lastNew.rows = <<>>) =>
       ReadHistory(LastFile) = Df(<<>>)
  /\ pc # "aborted"

\* C27: distinct configured names have distinct history files, and the
\* persisted history of a location holds only records fetched for it.
C27_DistinctNamesDistinctFiles ==
  /\ \A i, j \in DOMAIN maps :
       maps[i] # maps[j] => map_paths(maps[i]) # map_paths(maps[j])
  /\ \A kw \in Range(maps) : \A i \in DOMAIN disk[map_paths(kw)].rows :
       disk[map_paths(kw)].rows[i].mapName = kw

----------------------------------------------------------------------------
(* C14..C16, C19, C20: under SpecPure *)

Collected == pc = "returned" /\ arg.fn = "_collect_recent_df"
Formatted == pc = "returned" /\ arg.fn = "_format_price_kr"
Fetched == pc = "returned" /\ arg.fn = "fetch_period"

\* the items of the batch whose dateTime is there and parses, in order
GoodItems == Pick(arg.rows, {i \in DOMAIN arg.rows :
                               arg.rows[i].dateTime.tz \notin {"none", "bad"}})

\* the local time an item's dateTime stands for: the wall-clock value of a
\* string without offset, the same instant at UTC+9 of one with an offset
LocalOf(raw) ==
  IF raw.tz = "naive" THEN raw.ts ELSE raw.ts - UtcOffset(raw.tz) + 9 * 60

\* C14: a record of a batch whose dateTime is missing or does not parse is
\* dropped and never stored, and every other record of the batch is
\* normalized and merged into the history.
C14_BadRecordDroppedAlone ==
  Collected =>
    /\ Len(ret.new.rows) = Len(GoodItems)
    /\ \A i \in DOMAIN GoodItems :
         /\ Ts(ret.new.rows[i]) = LocalOf(GoodItems[i].dateTime)
         /\ ret.new.rows[i].price = GoodItems[i].price
         /\ \E j \in DOMAIN ret.merged.rows :
              /\ Ts(ret.merged.rows[j]) = LocalOf(GoodItems[i].dateTime)
              /\ ret.merged.rows[j].price = GoodItems[i].price
    /\ \A j \in DOMAIN ret.merged.rows :
         \/ \E i \in DOMAIN arg.old.rows : ret.merged.rows[j] = arg.old.rows[i]
         \/ \E i \in DOMAIN GoodItems :
              Ts(ret.merged.rows[j]) = LocalOf(GoodItems[i].dateTime)

\* a batch of a record that is no date and one at 10:00, merged into a
\* stored history
C14_Witness ==
  /\ Collected
  /\ Len(arg.rows) = 2
  /\ arg.rows[1].dateTime.tz = "bad"
  /\ arg.rows[2].dateTime.tz = "naive"
  /\ arg.old.rows # <<>>
  /\ Len(ret.new.rows) = 1

\* C15: parse_dt gives the wall-clock value of an input without offset and
\* the same instant at UTC+9 of an input with one; re-parsing the stored
\* string gives the same value; date and weekday are those of the local time
\* (2025-06-01T20:00:00Z is stored as 2025-06-02 05:00, a Monday).
C15_LocalTimeOfInput ==
  Collected =>
    \A i \in DOMAIN GoodItems :
      LET raw == GoodItems[i].dateTime
          row == ret.new.rows[i]
      IN /\ Ts(row) = LocalOf(raw)
         /\ parse_dt([ts |-> Ts(row), tz |-> "naive"]) = Ts(row)
         /\ row.date = LocalOf(raw) \div (24 * 60)
         /\ row.weekday = (6 + LocalOf(raw) \div (24 * 60)) % 7
         /\ (raw = [ts |-> AtDay(0, 20), tz |-> "Z"]) =>
              (Ts(row) = AtDay(1, 5) /\ row.date = 1 /\ row.weekday = 0)

\* a batch with 2025-06-01T20:00:00Z has been normalized
C15_Witness ==
  /\ Collected
  /\ \E i \in DOMAIN arg.rows : arg.rows[i].dateTime = [ts |-> AtDay(0, 20), tz |-> "Z"]
  /\ \E i \in DOMAIN ret.new.rows : ret.new.rows[i].date = 1

\* C16: the time field of every normalized record is the local hour
\* truncated to HH:00, whatever the minute of the source timestamp.
C16_TimeIsHourSlot ==
  Collected =>
    \A i \in DOMAIN ret.new.rows :
      /\ ret.new.rows[i].time % 60 = 0
      /\ ret.new.rows[i].time = (MinuteOf(Ts(ret.new.rows[i])) \div 60) * 60

\* C19: 99,999,999 is rendered in units of 10,000, 100,000,000 as a whole
\* number of units of 100,000,000, 150,000,000 with one decimal, None and NaN
\* as the placeholder; for v >= 0 the unit is 100,000,000 exactly when
\* v >= 100,000,000; a negative value renders as its absolute value.
C19_PriceFormatBoundary ==
  Formatted =>
    /\ arg.x = 99999999 => ret = [unit |-> "man", whole |-> 10000, tenth |-> NoneV]
    /\ arg.x = 100000000 => ret = [unit |-> "eok", whole |-> 1, tenth |-> NoneV]
    /\ arg.x = 150000000 => ret = [unit |-> "eok", whole |-> 1, tenth |-> 5]
    /\ arg.x \in {NoneV, NaNV} => ret.unit = "-"
    /\ arg.x >= 0 => (ret.unit = "eok" <=> arg.x >= 100000000)
    /\ arg.x >= 0 => (ret.unit = "man" <=> arg.x < 100000000)
    /\ (arg.x < 0 /\ arg.x \notin {NoneV, NaNV}) => ret = _format_price_kr(0 - arg.x)

\* 100,000,000 has been formatted
C19_Witness == Formatted /\ arg.x = 100000000 /\ ret.unit = "eok"

\* the keys of the body that are present, and those that hold a list
PresentKeys == {i \in DOMAIN FetchKeys : arg.body.keys[FetchKeys[i]].t # "absent"}
ListKeys == {i \in DOMAIN FetchKeys : arg.body.keys[FetchKeys[i]].t = "list"}

\* C20 as claimed: for a 2xx response fetch_period never raises; it returns a
\* bare list itself, the list under the first present of the four keys when
\* that key holds a list, and the empty list for every other body.
C20_FirstPresentKeyOrEmpty ==
  (Fetched /\ arg.ok2xx) =>
    /\ ~ret.raised
    /\ arg.body.kind = "list" => ret.rows = arg.body.v
    /\ arg.body.kind = "dict" =>
         IF PresentKeys # {} /\ Min(PresentKeys) \in ListKeys
         THEN ret.rows = arg.body.keys[FetchKeys[Min(PresentKeys)]].v
         ELSE ret.rows = <<>>
    /\ arg.body.kind \notin {"list", "dict"} => ret.rows = <<>>

\* C20 as amended: for a 2xx response whose body is JSON fetch_period does
\* not raise; it returns a bare list itself, the list under the first of the
\* four keys that holds a list, and the empty list for every other JSON
\* value; a body that is not JSON makes it raise.
C20_FirstListKeyOrEmpty ==
  (Fetched /\ arg.ok2xx) =>
    /\ ret.raised <=> arg.body.kind = "notjson"
    /\ arg.body.kind = "list" => ret.rows = arg.body.v
    /\ arg.body.kind = "dict" =>
         IF ListKeys # {}
         THEN ret.rows = arg.body.keys[FetchKeys[Min(ListKeys)]].v
         ELSE ret.rows = <<>>
    /\ arg.body.kind = "scalar" => ret.rows = <<>>

\* an object whose "data" is no list and whose "items" is a list of one
C20_Witness ==
  /\ Fetched
  /\ arg.ok2xx
  /\ arg.body.kind = "dict"
  /\ arg.body.keys["data"] = NotList
  /\ arg.body.keys["items"] = ListOf(<<"r1">>)
  /\ ret.rows = <<"r1">>

----------------------------------------------------------------------------
(* C17, C18: under SpecPure *)

Projected == pc = "returned" /\ arg.fn = "project"

\* C17: every pack of build_daily_series has 24 hour slots, 24 values and 24
\* hover entries, aligned index by index, and its hours are 01:00, 02:00,
\* ..., 23:00, 00:00.
C17_TwentyFourSlots ==
  Projected =>
    \A n \in DOMAIN ret.daily :
      LET pack == ret.daily[n] IN
      /\ Len(pack.x) = 24
      /\ Len(pack.y) = 24
      /\ Len(pack.hover) = 24
      /\ \A i \in 1..23 : pack.x[i] = i * 60
      /\ pack.x[24] = 0
      /\ \A i \in 1..24 :
           /\ pack.hover[i].time = pack.x[i]
           /\ pack.hover[i].date = pack.label
           /\ (pack.y[i] = NoneV) <=> (pack.hover[i].price = Placeholder)

\* a pack with a value at 10:00 and none at 11:00
C17_Witness ==
  /\ Projected
  /\ \E n \in DOMAIN ret.daily :
       /\ ret.daily[n].y[10] = 1200
       /\ ret.daily[n].y[11] = NoneV

\* the instants of the history in the window of the points
InWindow ==
  {t \in TsSet(arg.df.rows) : t >= arg.now - POINTS_MAX_DAYS * MinPerDay}

PointsAt(t) ==
  {i \in DOMAIN ret.points :
     ret.points[i].date = DayOf(t) /\ ret.points[i].time = MinuteOf(t)}

\* C18: build_points returns exactly one point for each timestamp of the
\* history in the window whose last record has a price, with the price and
\* tradeCount of that record, and no other point.
C18_OnePointPerTimestamp ==
  Projected =>
    /\ \A t \in InWindow :
         LET last == LastAt(arg.df.rows, t) IN
         IF last.price \in {NoneV, NaNV} THEN PointsAt(t) = {}
         ELSE /\ Cardinality(PointsAt(t)) = 1
              /\ \A i \in PointsAt(t) :
                   /\ ret.points[i].price = last.price
                   /\ ret.points[i].tradeCount =
                        (IF last.tradeCount \in {NoneV, NaNV} THEN NoneV
                         ELSE last.tradeCount)
    /\ \A i \in DOMAIN ret.points :
         \E t \in InWindow : i \in PointsAt(t)

\* the same, for the histories that hold one record per timestamp
C18_HoldsWithoutDuplicates ==
  (Projected /\ Cardinality(TsSet(arg.df.rows)) = Len(arg.df.rows)) =>
    C18_OnePointPerTimestamp

----------------------------------------------------------------------------
(* C23, C25: under SpecPure *)

\* the records of the history on date d, and those in hour h of that date
OnDate(d) == {k \in DOMAIN arg.df.rows : DayOf(Ts(arg.df.rows[k])) = d}
InHour(d, h) == {k \in OnDate(d) : MinuteOf(Ts(arg.df.rows[k])) \div 60 = h}
HasPrice(r) == r.price \notin {NoneV, NaNV}

\* the records of hour h of date d that no record of the hour comes after
LatestInHour(d, h) ==
  {k \in InHour(d, h) :
     \A m \in InHour(d, h) : Ts(arg.df.rows[m]) <= Ts(arg.df.rows[k])}

\* C23: build_daily_series returns one pack per distinct calendar date of the
\* history, in ascending order of the date; the value of an hour slot is the
\* price of the record of that date and hour, of the latest one when there
\* are several, and is null exactly when no record with a price exists for
\* that date and hour.
C23_OnePackPerDateLatestPerHour ==
  Projected =>
    /\ Len(ret.daily) = Cardinality({DayOf(t) : t \in TsSet(arg.df.rows)})
    /\ {ret.daily[n].label : n \in DOMAIN ret.daily}
         = {DayOf(t) : t \in TsSet(arg.df.rows)}
    /\ \A n, m \in DOMAIN ret.daily : n < m => ret.daily[n].label < ret.daily[m].label
    /\ \A n \in DOMAIN ret.daily : \A i \in 1..24 :
         LET d == ret.daily[n].label
             h == ret.daily[n].x[i] \div 60
             y == ret.daily[n].y[i]
         IN /\ (y = NoneV) <=> (\A k \in InHour(d, h) : ~HasPrice(arg.df.rows[k]))
            /\ (y # NoneV) => \E k \in LatestInHour(d, h) : y = arg.df.rows[k].price

\* the same, for the histories whose records are all on the hour and hold
\* one record per timestamp
C23_HoldsOnHourlyRecords ==
  (Projected
     /\ Cardinality(TsSet(arg.df.rows)) = Len(arg.df.rows)
     /\ \A t \in TsSet(arg.df.rows) : t % 60 = 0) =>
    C23_OnePackPerDateLatestPerHour

\* the value of the daily series at the hour slot of instant t
DailyAt(t) ==
  {ret.daily[n].y[i] : n \in {m \in DOMAIN ret.daily : ret.daily[m].label = DayOf(t)},
                       i \in {j \in 1..24 : HOUR_ORDER[j] = (MinuteOf(t) \div 60) * 60}}

\* C25: every point whose time is an hour slot has, in the pack of its date,
\* a non-null value at that slot equal to its price; every record of the
\* history with a price in the window of the points appears as a point and
\* as a non-null value of the daily series.
C25_ProjectionsAgree ==
  Projected =>
    /\ \A i \in DOMAIN ret.points :
         ret.points[i].time % 60 = 0 =>
           DailyAt(ret.points[i].date * MinPerDay + ret.points[i].time)
             = {ret.points[i].price}
    /\ \A k \in DOMAIN arg.df.rows :
         LET r == arg.df.rows[k] IN
         (HasPrice(r) /\ Ts(r) \in InWindow) =>
           /\ \E i \in PointsAt(Ts(r)) : ret.points[i].price = r.price
           /\ DailyAt(Ts(r)) = {r.price}

\* the same, for the histories whose records are all on the hour and hold
\* one record per timestamp
C25_HoldsOnHourlyRecords ==
  (Projected
     /\ Cardinality(TsSet(arg.df.rows)) = Len(arg.df.rows)
     /\ \A t \in TsSet(arg.df.rows) : t % 60 = 0) =>
    C25_ProjectionsAgree

----------------------------------------------------------------------------
(* C24: under SpecPure *)

MergeCalled == pc = "returned" /\ arg.fn = "_merge_history"

Missing(v) == v \in {NoneV, NaNV}
Unparsable(r) == r.dateTime.fmt = "bad"

\* the rows of both arguments, old first
MergeInput == arg.old.rows \o arg.new.rows

\* C24: after _merge_history every record whose timestamp parses has its
\* date, time and weekday, those that were missing (None, or the empty cell
\* of a history file) set to the values derived from the timestamp; a record
\* whose timestamp cannot be parsed is kept unchanged, not dropped.
C24_MissingFieldsBackfilled ==
  MergeCalled =>
    /\ \A j \in DOMAIN ret.merged.rows :
         LET r == ret.merged.rows[j] IN
         ~Unparsable(r) =>
           /\ ~Missing(r.date) /\ ~Missing(r.time) /\ ~Missing(r.weekday)
           /\ \A i \in DOMAIN MergeInput :
                MergeInput[i].dateTime = r.dateTime =>
                  /\ Missing(MergeInput[i].date) => r.date = Ts(r) \div (24 * 60)
                  /\ Missing(MergeInput[i].time) => r.time = Ts(r) % (24 * 60)
                  /\ Missing(MergeInput[i].weekday) =>
                       r.weekday = (6 + Ts(r) \div (24 * 60)) % 7
    /\ \A i \in DOMAIN MergeInput :
         Unparsable(MergeInput[i]) =>
           Cardinality({j \in DOMAIN ret.merged.rows : ret.merged.rows[j] = MergeInput[i]})
             = Cardinality({k \in DOMAIN MergeInput : MergeInput[k] = MergeInput[i]})

\* the backfill, for the histories whose missing fields are None (columns
\* the file does not have), and the unparsable rows, for the histories with
\* at most one of them
C24_HoldsForMissingColumns ==
  (/\ MergeCalled
   /\ \A i \in DOMAIN MergeInput :
        /\ MergeInput[i].date # NaNV
        /\ MergeInput[i].time # NaNV
        /\ MergeInput[i].weekday # NaNV
   /\ Cardinality({k \in DOMAIN MergeInput : Unparsable(MergeInput[k])}) <= 1) =>
    C24_MissingFieldsBackfilled

----------------------------------------------------------------------------
(* C21: under SpecPure *)

\* the fetch of _collect_recent_df returned and the raw dump is written
Dumped == arg.fn = "loop_body" /\ pc \in {"dumped", "returned"} /\ ret.dump.exists

\* C21: for every successful fetch the raw dump file holds the response as
\* received, a wrapping object and a body of unexpected shape included, and
\* it is written before any record of the response is dropped or transformed.
C21_DumpIsResponseAsReceived ==
  /\ (arg.fn = "loop_body" /\ pc \in {"dumped", "returned"} /\ arg.ok2xx
        /\ arg.body.kind # "notjson") =>
       /\ ret.dump.exists
       /\ ret.dump.obj = arg.body
  /\ (arg.fn = "loop_body" /\ pc = "dumped") => ret.new = NoDf

\* the same, for the responses that are a bare list
C21_HoldsForBareLists ==
  (Dumped /\ arg.body.kind = "list") =>
    /\ ret.dump.obj = arg.body
    /\ pc = "dumped" => ret.new = NoDf

----------------------------------------------------------------------------
(* C28: under SpecPure *)

\* the list of items the response carries: itself, or the list under the
\* first of the four keys that holds one
BatchOf(body) ==
  IF body.kind = "list" THEN body.v
  ELSE IF body.kind = "dict" /\ body.keys["data"].t = "list" THEN body.keys["data"].v
  ELSE IF body.kind = "dict" /\ body.keys["items"].t = "list" THEN body.keys["items"].v
  ELSE <<>>

\* an item that is an object with a dateTime that parses and a price and
\* tradeCount that are numbers or null
WellFormed(it) ==
  /\ "dateTime" \in DOMAIN it
  /\ it.dateTime.tz \in {"naive", "Z", "+09:00", "-05:00"}
  /\ it.price # NotNum
  /\ it.tradeCount # NotNum

LoopBodyDone == arg.fn = "loop_body" /\ pc = "returned" /\ arg.ok2xx

\* C28: a record of a fetched batch with a price or tradeCount that is no
\* number, or an item that is no object, affects only itself: every
\* well-formed record of the batch is normalized and merged into the history
\* in that run.
C28_MalformedRecordAffectsOnlyItself ==
  LoopBodyDone =>
    \A i \in DOMAIN BatchOf(arg.body) :
      LET it == BatchOf(arg.body)[i] IN
      WellFormed(it) =>
        \E j \in DOMAIN ret.merged.rows :
          /\ Ts(ret.merged.rows[j]) = LocalOf(it.dateTime)
          /\ ret.merged.rows[j].price = it.price
          /\ ret.merged.rows[j].tradeCount = it.tradeCount

\* the same, for the batches all of whose items are objects with numeric or
\* null price and tradeCount
C28_HoldsWithoutMalformed ==
  (LoopBodyDone /\ ~CollectRaises(BatchOf(arg.body))) =>
    C28_MalformedRecordAffectsOnlyItself

----------------------------------------------------------------------------
(* C5..C7: under SpecFn *)

Trimmed == pc = "trimmed"
Merged == pc \in {"merged", "trimmed"}

\* the rows of rows at the indices idx, as records by value, counted
CountIn(rows, idx, v) == Cardinality({i \in idx : RowVal(rows[i]) = v})

\* out holds exactly the rows of rows at the indices idx
HoldsExactly(out, rows, idx) ==
  /\ Len(out) = Cardinality(idx)
  /\ \A i \in idx : Count(out, RowVal(rows[i])) = CountIn(rows, idx, RowVal(rows[i]))

\* C5: trim_history_days(h, keepDays) removes a record iff its timestamp is
\* strictly older than max(timestamp of h) - keepDays.
C5_TrimRemovesExactlyOlder ==
  (Trimmed /\ outAB.rows # <<>>) =>
    LET cutoff == Max(TsSet(outAB.rows)) - argDays * MinPerDay IN
    HoldsExactly(outTrim.rows, outAB.rows,
                 {i \in DOMAIN outAB.rows : Ts(outAB.rows[i]) >= cutoff})

\* the scenario of C6: keep 7 days, a history from 2025-06-01 (day 0) to
\* 2025-06-20 (day 19)
Scenario7 ==
  /\ Trimmed
  /\ argDays = 7
  /\ outAB.rows # <<>>
  /\ DayOf(Min(TsSet(outAB.rows))) = 0
  /\ DayOf(Max(TsSet(outAB.rows))) = 19

\* the rows pd.to_datetime parses, and the latest instant among them
ParsedIdx == {i \in DOMAIN outAB.rows : ValidMask(outAB.rows, strictParse)[i]}
LatestParsed == Max({Ts(outAB.rows[i]) : i \in ParsedIdx})

Texts(rows) == {rows[i].dateTime : i \in DOMAIN rows}
LastWithText(rows, k) == rows[Max({i \in DOMAIN rows : rows[i].dateTime = k})]
WithText(rows, k) == {i \in DOMAIN rows : rows[i].dateTime = k}

\* C7 as claimed: of two records sharing a timestamp, a in A and b in B, b
\* fetched later, both _merge_history(A, B) and _merge_history(B, A) keep b.
C7_LaterFetchWinsEitherOrder ==
  Merged =>
    \A t \in TsSet(argOld.rows) \cap TsSet(argNew.rows) :
      /\ \E i \in DOMAIN outAB.rows :
           RowVal(outAB.rows[i]) = RowVal(LastAt(argNew.rows, t))
      /\ \E i \in DOMAIN outBA.rows :
           RowVal(outBA.rows[i]) = RowVal(LastAt(argNew.rows, t))

\* C7 as amended: of the records with one dateTime text, _merge_history keeps
\* the last one of its second argument and no other: _merge_history(A, B)
\* keeps b, _merge_history(B, A) keeps a.
C7_SecondArgumentWins ==
  Merged =>
    \A k \in Texts(argOld.rows) \cap Texts(argNew.rows) :
      /\ \A i \in WithText(outAB.rows, k) :
           outAB.rows[i] = LastWithText(argNew.rows, k)
      /\ Cardinality(WithText(outAB.rows, k)) = 1
      /\ \A i \in WithText(outBA.rows, k) :
           outBA.rows[i] = LastWithText(argOld.rows, k)
      /\ Cardinality(WithText(outBA.rows, k)) = 1

\* both arguments hold a record for 2025-06-13T10:00:00, with different prices
C7_Witness ==
  /\ Merged
  /\ DT(AtDay(12, 10), "T") \in Texts(argOld.rows) \cap Texts(argNew.rows)
  /\ LastWithText(argOld.rows, DT(AtDay(12, 10), "T")).price
       # LastWithText(argNew.rows, DT(AtDay(12, 10), "T")).price

====
